---------------------------- MODULE Spec2Model ----------------------------
(***************************************************************************)
(* Model of the treadmill link manager (App.tsx: WebSocket lifecycle,      *)
(* command sending, inbound message normalisation), of the scenario loops  *)
(* and of the mean-reverting random walk (services/randomWalk.ts).         *)
(*                                                                         *)
(* Numbers.  Speeds, inclines, bounds and volatilities are JavaScript      *)
(* numbers; the model keeps them as integers counting thousandths          *)
(* (4.2 is 4200), and getNextValue computes in ten-thousandths so that the *)
(* halving of min+max, the 0.2 drift factor and the noise are exact.       *)
(* Math.random() is sampled at the quarters 0, 1/4, 1/2, 3/4 of [0,1).     *)
(*                                                                         *)
(* Event handlers run to completion (single JavaScript thread), so every   *)
(* handler, effect and timer callback is one atomic action.                *)
(***************************************************************************)
EXTENDS Integers, Sequences, FiniteSets, TLC

VARIABLES
    wsStatus,          \* useState wsStatus (WebSocketStatus)
    wsUrl,             \* useState wsUrl
    wsRef,             \* wsRef.current: index into ws, or NoSocket for null
    ws,                \* every WebSocket object created so far, in creation order
    mounted,           \* whether the App effects are mounted
    treadmillRef,      \* treadmillRef.current (telemetry truth from the machine)
    commandRef,        \* commandRef.current (tracked commanded targets)
    isScenarioActive,  \* useState isScenarioActive
    scenarioConfig,    \* useState scenarioConfig
    lastOp,            \* the handler that ran last (observation only)
    logs,              \* useState logs: the entries the handler that ran last put at
                       \* its head, newest first (older entries are not kept)
    timerCalls,        \* the clearInterval / setInterval calls on the scenario loop
                       \* timers made by the handler that ran last, in order
    walk,              \* one application of getNextValue to drawn inputs
    norm               \* one application of the message normaliser to a drawn payload

vars == <<wsStatus, wsUrl, wsRef, ws, mounted, treadmillRef, commandRef,
          isScenarioActive, scenarioConfig, lastOp, logs, timerCalls, walk, norm>>

linkVars == <<wsStatus, wsUrl, wsRef, ws, mounted>>
appVars == <<wsStatus, wsUrl, wsRef, ws, mounted, treadmillRef, commandRef,
             isScenarioActive, scenarioConfig, lastOp, logs, timerCalls>>

---------------------------------------------------------------------------
(* Bounds of the model *)

MaxSockets == 2        \* WebSocket objects created in one behaviour
MaxSent == 3           \* messages recorded per socket (ticks stop sending beyond it)
MaxCloseEvents == 2    \* close notifications a transport delivers for one object (SpecDup)
MaxScenarioSockets == 1 \* WebSocket objects created in one behaviour of SpecScenario
MaxPrecision == 2      \* precisions 0..MaxPrecision are drawn for getNextValue
MaxPayloadFields == 3  \* populated entries of a drawn payload (SpecNorm)

---------------------------------------------------------------------------
(* Numbers *)

Milli == 10^3          \* model integers per unit (thousandths)
Fine == 2 * 5          \* ten-thousandths per thousandth: the 2 of (min+max)/2 times the 5 of 0.2

\* An optional value: << >> for undefined, <<v>> for the value v
Undefined == << >>
Some(v) == <<v>>

Max2(a, b) == IF a >= b THEN a ELSE b
Min2(a, b) == IF a <= b THEN a ELSE b
Abs(a) == IF a < 0 THEN -a ELSE a

\* Math.random(): a numerator r of r/4 in [0,1)
RandomDraws == {0, 1, 2, 3}

\* Math.round(x) for x = num/den (den > 0): the nearest integer, ties towards
\* +Infinity, i.e. floor(x + 1/2).
MathRound(num, den) == (2 * num + den) \div (2 * den)

\* getNextValue(current, min, max, volatility, precision) with the value r/4
\* returned by Math.random().  Arguments and result in thousandths.
NoDriftGetNextValue(current, min, max, volatility, precision, r) ==
    LET base1 == IF current < min THEN min ELSE current
        base == IF current > max THEN max ELSE base1
        next == base * Fine + (r - 2) * volatility * 5
        clamped == Max2(min * Fine, Min2(max * Fine, next))
        q == Milli \div (10 ^ precision)
    IN  MathRound(clamped, q * Fine) * q

MinSeekingGetNextValue(current, min, max, volatility, precision, r) ==
    LET base1 == IF current < min THEN min ELSE current
        base == IF current > max THEN max ELSE base1
        next == base * Fine + 2 * (min - base) + (r - 2) * volatility * 5
        clamped == Max2(min * Fine, Min2(max * Fine, next))
        q == Milli \div (10 ^ precision)
    IN  MathRound(clamped, q * Fine) * q

getNextValue(current, min, max, volatility, precision, r) ==
    LET \* 1. base = current clamped (two sequential ifs)
        base1 == IF current < min THEN min ELSE current
        base == IF current > max THEN max ELSE base1
        \* 2. center = (min+max)/2, drift = (center - base) * 0.2;
        \*    in ten-thousandths: 10 * drift = (min + max) - 2 * base
        drift == (min + max) - 2 * base
        \* 3. noise = (Math.random()*2 - 1) * volatility;
        \*    in ten-thousandths with Math.random() = r/4: (r - 2) * volatility * 5
        noise == (r - 2) * volatility * 5
        \* 4. next = base + drift + noise
        next == base * Fine + drift + noise
        \* 5. Math.max(min, Math.min(max, next))
        clamped == Max2(min * Fine, Min2(max * Fine, next))
        \* 6. Math.round(next * factor) / factor, factor = 10^precision
        q == Milli \div (10 ^ precision)
    IN  MathRound(clamped, q * Fine) * q

\* The value of next after step 5 of getNextValue (base, drift, noise, hard
\* clamp), before the rounding of step 6; in ten-thousandths
clampedNext(current, min, max, volatility, r) ==
    LET base1 == IF current < min THEN min ELSE current
        base == IF current > max THEN max ELSE base1
        drift == (min + max) - 2 * base
        noise == (r - 2) * volatility * 5
        next == base * Fine + drift + noise
    IN  Max2(min * Fine, Min2(max * Fine, next))

---------------------------------------------------------------------------
(* The transport: WebSocket objects *)

WS_STATE_CONNECTING == 0
WS_STATE_OPEN == 1
WS_STATE_CLOSING == 2
WS_STATE_CLOSED == 3

NoSocket == 0          \* wsRef.current = null

\* Target addresses the operator can type; the last one makes new WebSocket() throw.
MalformedUrl == "not a url"
Urls == {"ws://localhost:8000/ws", "ws://treadmill:9000/ws", MalformedUrl}
DefaultUrl == "ws://localhost:8000/ws"

ValidUrl(url) == url # MalformedUrl

WebSocketStatus == {"DISCONNECTED", "CONNECTING", "CONNECTED", "ERROR"}

\* new WebSocket(url): nothing delivered, nothing sent, no timer captured it yet.
\*   openFired    the open event has been delivered
\*   closeEvents  close notifications delivered so far
\*   timers       pending setTimeout callbacks of onclose that captured this object
\*   sent         the messages handed to send(), oldest first
\*   tornDown     (history) it was the active link when the connection effect
\*                was cleaned up
NewWebSocket(url) ==
    [url |-> url, readyState |-> WS_STATE_CONNECTING, openFired |-> FALSE,
     closeEvents |-> 0, timers |-> 0, sent |-> << >>, tornDown |-> FALSE]

\* socket.close() on object s of sockets (no effect on null or on a closing/closed one)
CloseSocket(sockets, s) ==
    IF s # NoSocket /\ sockets[s].readyState \in {WS_STATE_CONNECTING, WS_STATE_OPEN}
    THEN [sockets EXCEPT ![s].readyState = WS_STATE_CLOSING]
    ELSE sockets

createProtocolMessage(type, value) ==
    IF value # Undefined THEN [type |-> type, value |-> value[1]] ELSE [type |-> type]

\* sendCommand(type, value, socket): the sockets after the call. ref is wsRef.current.
UncheckedSendCommand(type, value, socket, ref, sockets) ==
    LET targetWs == IF socket # NoSocket THEN socket ELSE ref
    IN  IF targetWs # NoSocket
        THEN [sockets EXCEPT ![targetWs].sent = Append(@, createProtocolMessage(type, value))]
        ELSE sockets

sendCommand(type, value, socket, ref, sockets) ==
    LET targetWs == IF socket # NoSocket THEN socket ELSE ref
    IN  IF targetWs # NoSocket /\ sockets[targetWs].readyState = WS_STATE_OPEN
        THEN [sockets EXCEPT ![targetWs].sent = Append(@, createProtocolMessage(type, value))]
        ELSE sockets

\* addLog(message, type): the entry put at the head of logs (its timestamp is
\* not kept); message is the fixed part of the text
LogEntry(message, type) == [message |-> message, type |-> type]
TxEntry(payload) == [message |-> "->", json |-> payload, type |-> "tx"]

\* The entries sendCommand(type, value, socket) logs
sendCommandLog(type, value, socket, ref, sockets) ==
    LET targetWs == IF socket # NoSocket THEN socket ELSE ref
    IN  IF targetWs # NoSocket /\ sockets[targetWs].readyState = WS_STATE_OPEN
        THEN << TxEntry(createProtocolMessage(type, value)) >>
        ELSE << >>

\* The entries connectWebSocket() logs
connectWebSocketLog(url, ref, sockets) ==
    IF ref # NoSocket /\ sockets[ref].url = url /\ sockets[ref].readyState = WS_STATE_OPEN
    THEN << >>
    ELSE IF ~ValidUrl(url) THEN << LogEntry("Invalid URL", "error") >> ELSE << >>

\* connectWebSocket() of the closure created for address url, run when wsRef.current
\* is ref and the sockets are as given: sets wsStatus', wsRef' and ws'.
connectWebSocket(url, ref, sockets) ==
    IF ref # NoSocket /\ sockets[ref].url = url /\ sockets[ref].readyState = WS_STATE_OPEN
    THEN /\ wsStatus' = wsStatus
         /\ wsRef' = ref
         /\ ws' = sockets
    ELSE LET closed == CloseSocket(sockets, ref)
         IN  IF ~ValidUrl(url)
             THEN \* new WebSocket throws: CONNECTING is overwritten by ERROR, wsRef kept
                  /\ wsStatus' = "ERROR"
                  /\ wsRef' = ref
                  /\ ws' = closed
             ELSE /\ wsStatus' = "CONNECTING"
                  /\ ws' = Append(closed, NewWebSocket(url))
                  /\ wsRef' = Len(closed) + 1

\* The cleanup of the connection effect: wsRef.current = null, then socket.close()
CleanupRef == NoSocket
CleanupSockets ==
    LET closed == CloseSocket(ws, wsRef)
    IN  IF wsRef # NoSocket THEN [closed EXCEPT ![wsRef].tornDown = TRUE] ELSE closed

\* ws.onopen of object s, run on the sockets as given
UnguardedOnopen(s, sockets) ==
    /\ wsStatus' = "CONNECTED"
    /\ ws' = sendCommand("GET_STATE", Undefined, s, wsRef,
                 sendCommand("REQUEST_CONTROL", Undefined, s, wsRef, sockets))

SwappedOnopen(s, sockets) ==
    IF s = wsRef
    THEN /\ wsStatus' = "CONNECTED"
         /\ ws' = sendCommand("REQUEST_CONTROL", Undefined, s, wsRef,
                      sendCommand("GET_STATE", Undefined, s, wsRef, sockets))
    ELSE /\ wsStatus' = wsStatus
         /\ ws' = sockets

onopen(s, sockets) ==
    IF s = wsRef
    THEN /\ wsStatus' = "CONNECTED"
         /\ ws' = sendCommand("GET_STATE", Undefined, s, wsRef,
                      sendCommand("REQUEST_CONTROL", Undefined, s, wsRef, sockets))
    ELSE /\ wsStatus' = wsStatus
         /\ ws' = sockets

\* The entries ws.onopen of object s logs, newest first
onopenLog(s, sockets) ==
    IF s = wsRef
    THEN sendCommandLog("GET_STATE", Undefined, s, wsRef,
             sendCommand("REQUEST_CONTROL", Undefined, s, wsRef, sockets))
         \o sendCommandLog("REQUEST_CONTROL", Undefined, s, wsRef, sockets)
         \o << LogEntry("Connected", "success") >>
    ELSE << >>

\* ws.onclose of object s
ForgetfulOnclose(s, sockets) ==
    IF s = wsRef
    THEN /\ wsStatus' = "DISCONNECTED"
         /\ ws' = sockets
    ELSE /\ wsStatus' = wsStatus
         /\ ws' = sockets

StatusKeepingOnclose(s, sockets) ==
    IF s = wsRef
    THEN /\ wsStatus' = wsStatus
         /\ ws' = [sockets EXCEPT ![s].timers = @ + 1]
    ELSE /\ wsStatus' = wsStatus
         /\ ws' = sockets

onclose(s, sockets) ==
    IF s = wsRef
    THEN /\ wsStatus' = "DISCONNECTED"
         /\ ws' = [sockets EXCEPT ![s].timers = @ + 1]
    ELSE /\ wsStatus' = wsStatus
         /\ ws' = sockets

\* The entries ws.onclose of object s logs
oncloseLog(s) ==
    IF s = wsRef THEN << LogEntry("Connection lost", "error") >> ELSE << >>

\* ws.onerror of object s
onerror(s) ==
    IF s = wsRef THEN wsStatus' = "ERROR" ELSE wsStatus' = wsStatus

\* The callback of the setTimeout in onclose of object s
UnguardedReconnectCallback(s, sockets) ==
    connectWebSocket(sockets[s].url, wsRef, sockets)

reconnectCallback(s, sockets) ==
    IF wsRef = s
    THEN connectWebSocket(sockets[s].url, wsRef, sockets)
    ELSE /\ wsStatus' = wsStatus
         /\ wsRef' = wsRef
         /\ ws' = sockets

\* The entries the callback of the setTimeout in onclose of object s logs
reconnectCallbackLog(s, sockets) ==
    IF wsRef = s THEN connectWebSocketLog(sockets[s].url, wsRef, sockets) ELSE << >>

LinkOpen == wsRef # NoSocket /\ ws[wsRef].readyState = WS_STATE_OPEN

---------------------------------------------------------------------------
(* Inbound frames: JSON values and the message normaliser of ws.onmessage *)

\* A JSON value after JSON.parse.  Strings are sequences of characters.
JUndefined == [k |-> "undefined"]
JNull == [k |-> "null"]
JBool(b) == [k |-> "boolean", b |-> b]
JNum(n) == [k |-> "number", n |-> n]
JStr(s) == [k |-> "string", s |-> s]
JObj(o) == [k |-> "object", o |-> o]

\* The empty object {} and an object with one more property
EmptyFields == [key \in {} |-> JUndefined]
With(o, key, v) == [x \in DOMAIN o \cup {key} |-> IF x = key THEN v ELSE o[x]]

\* obj.key on an object's fields
Get(o, key) == IF key \in DOMAIN o THEN o[key] ELSE JUndefined

\* a ?? b
Nullish(a, b) == IF a.k \in {"undefined", "null"} THEN b ELSE a

Digits == <<"0", "1", "2", "3", "4", "5", "6", "7", "8", "9">>
IsDigit(c) == \E d \in DOMAIN Digits : Digits[d] = c
DigitValue(c) == (CHOOSE d \in DOMAIN Digits : Digits[d] = c) - 1

\* The number of leading digits of s from position i on
RECURSIVE DigitRun(_, _)
DigitRun(s, i) ==
    IF i <= Len(s) /\ IsDigit(s[i]) THEN 1 + DigitRun(s, i + 1) ELSE 0

\* The digits s[i..i+n-1] read as a decimal integer
RECURSIVE DigitsValue(_, _, _)
DigitsValue(s, i, n) ==
    IF n = 0 THEN 0
    ELSE DigitsValue(s, i, n - 1) * 10 + DigitValue(s[i + n - 1])

\* The digits s[i..i+n-1] read as a fraction 0.ddd, in thousandths (digits after
\* the third are below the model's resolution)
FractionValue(s, i, n) ==
    LET d(j) == IF j <= n THEN DigitValue(s[i + j - 1]) ELSE 0
    IN  d(1) * 100 + d(2) * 10 + d(3)

RECURSIVE LeadingSpaces(_, _)
LeadingSpaces(s, i) ==
    IF i <= Len(s) /\ s[i] = " " THEN 1 + LeadingSpaces(s, i + 1) ELSE 0

\* parseFloat(s) as an optional number of thousandths; Undefined stands for NaN.
\* Leading white space is skipped, then the longest prefix [+-]digits[.digits]
\* or [+-].digits is read. (Exponents and Infinity are not read: no drawn string
\* has them.)
IntegerOnlyParseFloat(s) ==
    LET n == DigitRun(s, 1)
    IN  IF n = 0 THEN Undefined ELSE Some(DigitsValue(s, 1, n) * Milli)

parseFloat(s) ==
    LET start == 1 + LeadingSpaces(s, 1)
        signed == start <= Len(s) /\ s[start] \in {"-", "+"}
        sign == IF signed /\ s[start] = "-" THEN -1 ELSE 1
        i == IF signed THEN start + 1 ELSE start
        n == DigitRun(s, i)
        dot == i + n <= Len(s) /\ s[i + n] = "."
        m == IF dot THEN DigitRun(s, i + n + 1) ELSE 0
    IN  IF n = 0 /\ m = 0
        THEN Undefined
        ELSE Some(sign * (DigitsValue(s, i, n) * Milli + FractionValue(s, i + n + 1, m)))

\* parseNumber(val)
parseNumber(val) ==
    IF val.k = "number" THEN Some(val.n)
    ELSE IF val.k = "string"
         THEN (IF parseFloat(val.s) = Undefined THEN Undefined ELSE parseFloat(val.s))
         ELSE Undefined

SPEED == <<"S", "P", "E", "E", "D">>
SET_SPEED == <<"S", "E", "T", "_", "S", "P", "E", "E", "D">>
INCLINE == <<"I", "N", "C", "L", "I", "N", "E">>
SET_INCLINE == <<"S", "E", "T", "_", "I", "N", "C", "L", "I", "N", "E">>

\* The candidate keys, in the order the code tries them
NestedSpeedKeys == <<"speed_kmh", "speed", "kph">>
NestedInclineKeys == <<"incline_pct", "incline", "grade">>
ExtendedFlatSpeedKeys == <<"speed_kmh", "speed", "speedKmh", "kph", "spd">>

FlatSpeedKeys == <<"speed", "speedKmh", "kph", "spd">>
FlatInclineKeys == <<"incline", "inclinePct", "grade", "inc">>

\* o[keys[1]] ?? o[keys[2]] ?? ... ?? o[keys[n]]
RECURSIVE Coalesce(_, _, _)
Coalesce(o, keys, n) ==
    IF n = 1 THEN Get(o, keys[1])
    ELSE Nullish(Coalesce(o, keys, n - 1), Get(o, keys[n]))

\* 1. nested 'data' object: if (msg.data && typeof msg.data === 'object')
nestedRaw(msg, keys) ==
    LET data == Get(msg, "data")
    IN  IF data.k = "object" THEN Coalesce(data.o, keys, Len(keys)) ELSE JUndefined

\* 2. flat fields, tried only if (raw === undefined)
flatRaw(msg, raw, keys) ==
    IF raw = JUndefined THEN Coalesce(msg, keys, Len(keys)) ELSE raw

\* 3. typed single-value message: if (msg.type is one of types) raw = msg.value
typedRaw(msg, raw, types) ==
    IF Get(msg, "type") \in types THEN Get(msg, "value") ELSE raw

SpeedTypes == {JStr(SPEED), JStr(SET_SPEED)}
InclineTypes == {JStr(INCLINE), JStr(SET_INCLINE)}

\* The raw candidates after steps 1 and 2
earlierRawSpeed(msg) == flatRaw(msg, nestedRaw(msg, NestedSpeedKeys), FlatSpeedKeys)
earlierRawIncline(msg) == flatRaw(msg, nestedRaw(msg, NestedInclineKeys), FlatInclineKeys)

\* The extraction of ws.onmessage from a parsed object msg (its fields):
\* [speed |-> newSpeed, incline |-> newIncline], each optional.
normalize(msg) ==
    [speed |-> parseNumber(typedRaw(msg, earlierRawSpeed(msg), SpeedTypes)),
     incline |-> parseNumber(typedRaw(msg, earlierRawIncline(msg), InclineTypes))]

NoUpdate == [speed |-> Undefined, incline |-> Undefined]

\* What a text frame holds: text that JSON.parse rejects, or a JSON value.
NotJson == [k |-> "not json"]

\* The body of ws.onmessage on frame, as the extraction it reaches: a frame that
\* JSON.parse rejects, or that parses to null (msg.data then throws), ends in the
\* catch; a number, string or boolean has no properties.
extract(frame) ==
    IF frame.k = "object" THEN normalize(frame.o) ELSE NoUpdate

\* treadmillRef.current after ws.onmessage on frame
ResettingOnmessage(frame, telemetry) ==
    LET got == extract(frame)
    IN  IF got.speed # Undefined \/ got.incline # Undefined
        THEN [speedKmh |-> IF got.speed # Undefined THEN got.speed[1]
                                                     ELSE telemetry.speedKmh,
              inclinePct |-> IF got.incline # Undefined THEN got.incline[1]
                                                         ELSE telemetry.inclinePct,
              isConnected |-> TRUE]
        ELSE [speedKmh |-> 0, inclinePct |-> 0, isConnected |-> FALSE]

onmessage(frame, telemetry) ==
    LET got == extract(frame)
    IN  IF got.speed # Undefined \/ got.incline # Undefined
        THEN [speedKmh |-> IF got.speed # Undefined THEN got.speed[1]
                                                     ELSE telemetry.speedKmh,
              inclinePct |-> IF got.incline # Undefined THEN got.incline[1]
                                                         ELSE telemetry.inclinePct,
              isConnected |-> TRUE]
        ELSE telemetry

---------------------------------------------------------------------------
(* The App: initial state *)

\* updateInterval is a number of milliseconds, kept in thousandths like every number
InitialConfig ==
    [speed |-> [min |-> 2000, max |-> 8000, volatility |-> 500,
                updateInterval |-> 5000 * Milli],
     incline |-> [min |-> 0, max |-> 10000, volatility |-> 1000,
                  updateInterval |-> 30000 * Milli]]

InitialTelemetry == [speedKmh |-> 0, inclinePct |-> 0, isConnected |-> FALSE]

WalkIdle == [phase |-> "idle"]
NormIdle == [phase |-> "idle"]

Init ==
    /\ wsStatus = "DISCONNECTED"
    /\ wsUrl = DefaultUrl
    /\ wsRef = NoSocket
    /\ ws = << >>
    /\ mounted = FALSE
    /\ treadmillRef = InitialTelemetry
    /\ commandRef = [speed |-> 0, incline |-> 0]
    /\ isScenarioActive = FALSE
    /\ scenarioConfig = InitialConfig
    /\ lastOp = "init"
    /\ logs = << >>
    /\ timerCalls = << >>
    /\ walk = WalkIdle
    /\ norm = NormIdle

\* Frames the machine sends in the App model:
\*   {"speed":4.0,"incline":0}   {"data":{"speed_kmh":"4.9"}}   {"foo":1}   null
\*   and text that is not JSON
Frames ==
    { JObj(With(With(EmptyFields, "speed", JNum(4000)), "incline", JNum(0))),
      JObj(With(EmptyFields, "data",
                JObj(With(EmptyFields, "speed_kmh", JStr(<<"4", ".", "9">>))))),
      JObj(With(EmptyFields, "foo", JNum(1000))),
      JNull,
      NotJson }

\* What the operator types into the configuration form: (section, field, text)
ConfigEdits ==
    { <<"speed", "volatility", <<"0">> >>,
      <<"incline", "volatility", <<"0">> >>,
      <<"speed", "min", <<"x">> >> }

\* What the operator types into an Interval (s) field while a scenario may be
\* running: (section, seconds)
IntervalEdits == { <<"speed", <<"9">> >> }

---------------------------------------------------------------------------
(* The App: effects, event handlers and timer callbacks *)

\* Effect 3 (scenario initialisation), run when isScenarioActive has become active
UnseededCommand(active, telemetry, command) == command

SeededCommand(active, telemetry, command) ==
    IF active
    THEN [speed |-> telemetry.speedKmh, incline |-> telemetry.inclinePct]
    ELSE command

\* The entries effect 3 logs
scenarioInitLog(active) ==
    IF active THEN << LogEntry("Scenario Started", "info") >> ELSE << >>

Sections == {"speed", "incline"}

\* clearInterval(<dim>Interval) and setInterval(callback, delay) of the loop of dim
ClearInterval(dim) == [call |-> "clearInterval", loop |-> dim]
SetInterval(dim, delay) == [call |-> "setInterval", loop |-> dim, delay |-> delay]

\* Effect 4 (dim = "speed") or 5 (dim = "incline") when its dependencies have
\* changed: the cleanup of the previous run (which had set a timer if the
\* scenario was active), then the new run with the configuration config
loopEffect(dim, wasActive, active, config) ==
    (IF wasActive THEN << ClearInterval(dim) >> ELSE << >>)
    \o (IF active THEN << SetInterval(dim, config[dim].updateInterval) >> ELSE << >>)

\* The calls of the loop effects whose dependencies changed (rerun), speed first
loopEffects(wasActive, active, rerun, config) ==
    (IF "speed" \in rerun THEN loopEffect("speed", wasActive, active, config) ELSE << >>)
    \o (IF "incline" \in rerun THEN loopEffect("incline", wasActive, active, config)
                                 ELSE << >>)

\* First run of the effects (the scenario and poll timers exist while mounted)
Mount ==
    /\ ~mounted
    /\ Len(ws) < MaxSockets
    /\ mounted' = TRUE
    /\ connectWebSocket(wsUrl, wsRef, ws)
    /\ commandRef' = SeededCommand(isScenarioActive, treadmillRef, commandRef)
    /\ lastOp' = "mount"
    /\ timerCalls' = loopEffects(FALSE, isScenarioActive, Sections, scenarioConfig)
    /\ logs' = scenarioInitLog(isScenarioActive) \o connectWebSocketLog(wsUrl, wsRef, ws)
    /\ UNCHANGED <<wsUrl, treadmillRef, isScenarioActive, scenarioConfig, walk, norm>>

\* Teardown: the cleanup of every effect (wsRef.current = null; socket.close();
\* the intervals are cleared; a pending reconnect timeout is not)
Unmount ==
    /\ mounted
    /\ mounted' = FALSE
    /\ wsRef' = CleanupRef
    /\ ws' = CleanupSockets
    /\ lastOp' = "unmount"
    /\ timerCalls' = loopEffects(isScenarioActive, FALSE, Sections, scenarioConfig)
    /\ logs' = << >>
    /\ UNCHANGED <<wsStatus, wsUrl, treadmillRef, commandRef, isScenarioActive,
                   scenarioConfig, walk, norm>>

\* handleUrlSubmit with the given inputUrl: for a new address setWsUrl makes a
\* new connectWebSocket, so the connection effect is cleaned up and run again;
\* for the present address nothing is done.  Sets wsUrl', wsStatus', wsRef', ws'.
UncomparedHandleUrlSubmit(inputUrl) ==
    /\ wsUrl' = inputUrl
    /\ connectWebSocket(inputUrl, CleanupRef, CleanupSockets)

handleUrlSubmit(inputUrl) ==
    IF inputUrl # wsUrl
    THEN /\ wsUrl' = inputUrl
         /\ connectWebSocket(inputUrl, CleanupRef, CleanupSockets)
    ELSE UNCHANGED <<wsUrl, wsStatus, wsRef, ws>>

\* The entries handleUrlSubmit and the connection effect it triggers log
handleUrlSubmitLog(inputUrl) ==
    IF inputUrl # wsUrl
    THEN connectWebSocketLog(inputUrl, CleanupRef, CleanupSockets)
         \o << LogEntry("Configuration: Switching", "info") >>
    ELSE << >>

SubmitUrl(url) ==
    /\ mounted
    /\ url # wsUrl => Len(ws) < MaxSockets
    /\ handleUrlSubmit(url)
    /\ lastOp' = "submitUrl"
    /\ timerCalls' = << >>
    /\ logs' = handleUrlSubmitLog(url)
    /\ UNCHANGED <<mounted, treadmillRef, commandRef, isScenarioActive,
                   scenarioConfig, walk, norm>>

\* The connection of object s is established: readyState OPEN, open event
OnOpen(s) ==
    /\ ws[s].readyState = WS_STATE_CONNECTING
    /\ onopen(s, [ws EXCEPT ![s].readyState = WS_STATE_OPEN, ![s].openFired = TRUE])
    /\ lastOp' = "onopen"
    /\ timerCalls' = << >>
    /\ logs' = onopenLog(s, [ws EXCEPT ![s].readyState = WS_STATE_OPEN, ![s].openFired = TRUE])
    /\ UNCHANGED <<wsUrl, wsRef, mounted, treadmillRef, commandRef, isScenarioActive,
                   scenarioConfig, walk, norm>>

\* The open task of object s was queued before close() was called on it and runs
\* afterwards: the event is delivered; whether readyState is set to OPEN by that
\* task is left to the browser.
LateOpen(s) ==
    /\ ws[s].readyState = WS_STATE_CLOSING
    /\ ~ws[s].openFired
    /\ \E r \in {WS_STATE_CLOSING, WS_STATE_OPEN} :
          /\ onopen(s, [ws EXCEPT ![s].readyState = r, ![s].openFired = TRUE])
          /\ logs' = onopenLog(s, [ws EXCEPT ![s].readyState = r, ![s].openFired = TRUE])
    /\ lastOp' = "lateOpen"
    /\ timerCalls' = << >>
    /\ UNCHANGED <<wsUrl, wsRef, mounted, treadmillRef, commandRef, isScenarioActive,
                   scenarioConfig, walk, norm>>

\* The peer starts the closing handshake on the open object s: readyState
\* CLOSING, no event yet; its close event follows (OnClose)
PeerClosing(s) ==
    /\ ws[s].readyState = WS_STATE_OPEN
    /\ ws' = [ws EXCEPT ![s].readyState = WS_STATE_CLOSING]
    /\ lastOp' = "peerClosing"
    /\ timerCalls' = << >>
    /\ logs' = << >>
    /\ UNCHANGED <<wsStatus, wsUrl, wsRef, mounted, treadmillRef, commandRef,
                   isScenarioActive, scenarioConfig, walk, norm>>

\* The connection of object s fails (refused, or lost abruptly): readyState
\* CLOSED, error event; its close event follows (OnClose)
ReschedulingOnError(s) ==
    /\ ws[s].readyState # WS_STATE_CLOSED
    /\ onerror(s)
    /\ ws' = [ws EXCEPT ![s].readyState = WS_STATE_CLOSED,
                        ![s].timers = IF s = wsRef THEN @ + 1 ELSE @]
    /\ lastOp' = "onerror"
    /\ timerCalls' = << >>
    /\ logs' = << >>
    /\ UNCHANGED <<wsUrl, wsRef, mounted, treadmillRef, commandRef, isScenarioActive,
                   scenarioConfig, walk, norm>>

OnError(s) ==
    /\ ws[s].readyState # WS_STATE_CLOSED
    /\ onerror(s)
    /\ ws' = [ws EXCEPT ![s].readyState = WS_STATE_CLOSED]
    /\ lastOp' = "onerror"
    /\ timerCalls' = << >>
    /\ logs' = << >>
    /\ UNCHANGED <<wsUrl, wsRef, mounted, treadmillRef, commandRef, isScenarioActive,
                   scenarioConfig, walk, norm>>

\* The close event of object s: after a closing handshake (from OPEN or CLOSING)
\* or after its error event
UnlinkingOnClose(s) ==
    /\ \/ ws[s].readyState \in {WS_STATE_OPEN, WS_STATE_CLOSING}
       \/ ws[s].readyState = WS_STATE_CLOSED /\ ws[s].closeEvents = 0
    /\ onclose(s, [ws EXCEPT ![s].readyState = WS_STATE_CLOSED, ![s].closeEvents = 1])
    /\ lastOp' = "onclose"
    /\ timerCalls' = << >>
    /\ logs' = oncloseLog(s)
    /\ treadmillRef' = [treadmillRef EXCEPT !.isConnected = IF s = wsRef THEN FALSE ELSE @]
    /\ UNCHANGED <<wsUrl, wsRef, mounted, commandRef, isScenarioActive,
                   scenarioConfig, walk, norm>>

OnClose(s) ==
    /\ \/ ws[s].readyState \in {WS_STATE_OPEN, WS_STATE_CLOSING}
       \/ ws[s].readyState = WS_STATE_CLOSED /\ ws[s].closeEvents = 0
    /\ onclose(s, [ws EXCEPT ![s].readyState = WS_STATE_CLOSED, ![s].closeEvents = 1])
    /\ lastOp' = "onclose"
    /\ timerCalls' = << >>
    /\ logs' = oncloseLog(s)
    /\ UNCHANGED <<wsUrl, wsRef, mounted, treadmillRef, commandRef, isScenarioActive,
                   scenarioConfig, walk, norm>>

\* A pending setTimeout callback of onclose of object s runs (3000 ms have passed)
ReconnectTimer(s) ==
    /\ ws[s].timers > 0
    /\ wsRef = s => Len(ws) < MaxSockets
    /\ reconnectCallback(s, [ws EXCEPT ![s].timers = @ - 1])
    /\ lastOp' = "reconnectTimer"
    /\ timerCalls' = << >>
    /\ logs' = reconnectCallbackLog(s, [ws EXCEPT ![s].timers = @ - 1])
    /\ UNCHANGED <<wsUrl, mounted, treadmillRef, commandRef, isScenarioActive,
                   scenarioConfig, walk, norm>>

\* A frame arrives on object s: the message event is fired on an object whose
\* readyState is OPEN only (a frame received in another state is dropped by the
\* transport).  The handler has no check of s against wsRef.current.
\* (The one-off 'Rx' preview of the first frame of a connection is not among
\* the entries kept in logs.)
OnMessage(s, frame) ==
    /\ ws[s].openFired
    /\ ws[s].readyState = WS_STATE_OPEN
    /\ treadmillRef' = onmessage(frame, treadmillRef)
    /\ lastOp' = "onmessage"
    /\ timerCalls' = << >>
    /\ logs' = << >>
    /\ UNCHANGED <<wsStatus, wsUrl, wsRef, ws, mounted, commandRef, isScenarioActive,
                   scenarioConfig, walk, norm>>

\* toggleScenario, with effect 3 when the scenario becomes active
ToggleScenario ==
    /\ mounted
    /\ isScenarioActive' = ~isScenarioActive
    /\ commandRef' = SeededCommand(~isScenarioActive, treadmillRef, commandRef)
    /\ lastOp' = "toggleScenario"
    /\ timerCalls' = loopEffects(isScenarioActive, ~isScenarioActive, Sections, scenarioConfig)
    /\ logs' = scenarioInitLog(~isScenarioActive)
    /\ UNCHANGED <<wsStatus, wsUrl, wsRef, ws, mounted, treadmillRef, scenarioConfig,
                   walk, norm>>

\* The command a tick of dimension dim sends
TickCommand == [speed |-> "SET_SPEED_NOW", incline |-> "SET_INCLINE_NOW"]

\* The setInterval callback of the speed loop (dim = "speed") or of the incline
\* loop (dim = "incline"), Math.random() returning r/4: sets commandRef' and ws'
UnguardedScenarioTick(dim, r) ==
    LET next == getNextValue(commandRef[dim], scenarioConfig[dim].min,
                             scenarioConfig[dim].max, scenarioConfig[dim].volatility, 1, r)
    IN  /\ commandRef' = [commandRef EXCEPT ![dim] = next]
        /\ ws' = sendCommand(TickCommand[dim], Some(next), NoSocket, wsRef, ws)

TelemetrySeededScenarioTick(dim, r) ==
    IF ~LinkOpen
    THEN UNCHANGED <<commandRef, ws>>
    ELSE LET reading == IF dim = "speed" THEN treadmillRef.speedKmh
                                         ELSE treadmillRef.inclinePct
             next == getNextValue(reading, scenarioConfig[dim].min,
                                  scenarioConfig[dim].max, scenarioConfig[dim].volatility, 1, r)
         IN  /\ commandRef' = [commandRef EXCEPT ![dim] = next]
             /\ ws' = sendCommand(TickCommand[dim], Some(next), NoSocket, wsRef, ws)

scenarioTick(dim, r) ==
    IF ~LinkOpen
    THEN UNCHANGED <<commandRef, ws>>
    ELSE LET next == getNextValue(commandRef[dim], scenarioConfig[dim].min,
                                  scenarioConfig[dim].max, scenarioConfig[dim].volatility, 1, r)
         IN  /\ commandRef' = [commandRef EXCEPT ![dim] = next]
             /\ ws' = sendCommand(TickCommand[dim], Some(next), NoSocket, wsRef, ws)

\* The entries a tick of dimension dim logs
scenarioTickLog(dim, r) ==
    IF ~LinkOpen
    THEN << >>
    ELSE sendCommandLog(TickCommand[dim],
                        Some(getNextValue(commandRef[dim], scenarioConfig[dim].min,
                                          scenarioConfig[dim].max,
                                          scenarioConfig[dim].volatility, 1, r)),
                        NoSocket, wsRef, ws)

\* Room for one more recorded message on the active socket
SendRoom == LinkOpen => Len(ws[wsRef].sent) < MaxSent

LingeringSpeedTick(r) ==
    /\ mounted
    /\ SendRoom
    /\ scenarioTick("speed", r)
    /\ lastOp' = "speedTick"
    /\ timerCalls' = << >>
    /\ logs' = scenarioTickLog("speed", r)
    /\ UNCHANGED <<wsStatus, wsUrl, wsRef, mounted, treadmillRef, isScenarioActive,
                   scenarioConfig, walk, norm>>

SpeedTick(r) ==
    /\ mounted
    /\ isScenarioActive
    /\ SendRoom
    /\ scenarioTick("speed", r)
    /\ lastOp' = "speedTick"
    /\ timerCalls' = << >>
    /\ logs' = scenarioTickLog("speed", r)
    /\ UNCHANGED <<wsStatus, wsUrl, wsRef, mounted, treadmillRef, isScenarioActive,
                   scenarioConfig, walk, norm>>

InclineTick(r) ==
    /\ mounted
    /\ isScenarioActive
    /\ SendRoom
    /\ scenarioTick("incline", r)
    /\ lastOp' = "inclineTick"
    /\ timerCalls' = << >>
    /\ logs' = scenarioTickLog("incline", r)
    /\ UNCHANGED <<wsStatus, wsUrl, wsRef, mounted, treadmillRef, isScenarioActive,
                   scenarioConfig, walk, norm>>

\* The setInterval callback of the polling loop (every 500 ms)
ScenarioOnlyPollTick ==
    /\ mounted
    /\ SendRoom
    /\ ws' = IF LinkOpen /\ isScenarioActive
             THEN sendCommand("GET_STATE", Undefined, NoSocket, wsRef, ws)
             ELSE ws
    /\ lastOp' = "pollTick"
    /\ timerCalls' = << >>
    /\ logs' = IF LinkOpen /\ isScenarioActive
               THEN sendCommandLog("GET_STATE", Undefined, NoSocket, wsRef, ws)
               ELSE << >>
    /\ UNCHANGED <<wsStatus, wsUrl, wsRef, mounted, treadmillRef, commandRef,
                   isScenarioActive, scenarioConfig, walk, norm>>

PollTick ==
    /\ mounted
    /\ SendRoom
    /\ ws' = IF LinkOpen THEN sendCommand("GET_STATE", Undefined, NoSocket, wsRef, ws) ELSE ws
    /\ lastOp' = "pollTick"
    /\ timerCalls' = << >>
    /\ logs' = IF LinkOpen THEN sendCommandLog("GET_STATE", Undefined, NoSocket, wsRef, ws)
                           ELSE << >>
    /\ UNCHANGED <<wsStatus, wsUrl, wsRef, mounted, treadmillRef, commandRef,
                   isScenarioActive, scenarioConfig, walk, norm>>

\* ControlPanel handleChange(section, field, value)
handleChange(config, section, field, value) ==
    LET numVal == parseFloat(value)
    IN  IF numVal = Undefined
        THEN config
        ELSE [config EXCEPT ![section][field] = numVal[1]]

\* The sections of the configuration handleChange replaces by a new object: the
\* edited one if the text is a number, none otherwise
DeepCopyingHandleChangeReplaces(section, value) ==
    IF parseFloat(value) = Undefined THEN {} ELSE {"speed", "incline"}

handleChangeReplaces(section, value) ==
    IF parseFloat(value) = Undefined THEN {} ELSE {section}

ConfigChange(edit) ==
    /\ mounted
    /\ scenarioConfig' = handleChange(scenarioConfig, edit[1], edit[2], edit[3])
    /\ lastOp' = "configChange"
    /\ timerCalls' = loopEffects(isScenarioActive, isScenarioActive,
                                   handleChangeReplaces(edit[1], edit[3]), scenarioConfig')
    /\ logs' = << >>
    /\ UNCHANGED <<wsStatus, wsUrl, wsRef, ws, mounted, treadmillRef, commandRef,
                   isScenarioActive, walk, norm>>

\* Number.prototype.toString of a number of thousandths: the integer digits and,
\* if the fraction is not zero, a point and the fraction without trailing zeros
RECURSIVE DigitString(_)
DigitString(n) ==
    IF n < 10 THEN <<Digits[n + 1]>>
    ELSE DigitString(n \div 10) \o <<Digits[(n % 10) + 1]>>

FractionString(f) ==
    LET d1 == <<Digits[(f \div 100) + 1]>>
        d2 == <<Digits[((f \div 10) % 10) + 1]>>
        d3 == <<Digits[(f % 10) + 1]>>
    IN  IF f % 10 # 0 THEN d1 \o d2 \o d3
        ELSE IF f % 100 # 0 THEN d1 \o d2
        ELSE d1

NumberToString(n) ==
    LET a == Abs(n)
        whole == DigitString(a \div Milli)
        unsigned == IF a % Milli = 0 THEN whole
                    ELSE whole \o <<".">> \o FractionString(a % Milli)
    IN  IF n < 0 THEN <<"-">> \o unsigned ELSE unsigned

\* onChange of an Interval (s) input: the seconds typed are parsed, multiplied
\* by 1000, printed, and handed to handleChange, which parses them again
intervalOnChange(config, section, value) ==
    LET val == parseFloat(value)
    IN  IF val = Undefined
        THEN config
        ELSE handleChange(config, section, "updateInterval", NumberToString(val[1] * 1000))

\* The sections that onChange replaces by a new object
intervalOnChangeReplaces(section, value) ==
    LET val == parseFloat(value)
    IN  IF val = Undefined
        THEN {}
        ELSE handleChangeReplaces(section, NumberToString(val[1] * 1000))

IntervalChange(section, value) ==
    /\ mounted
    /\ scenarioConfig' = intervalOnChange(scenarioConfig, section, value)
    /\ lastOp' = "intervalChange"
    /\ timerCalls' = loopEffects(isScenarioActive, isScenarioActive,
                                   intervalOnChangeReplaces(section, value), scenarioConfig')
    /\ logs' = << >>
    /\ UNCHANGED <<wsStatus, wsUrl, wsRef, ws, mounted, treadmillRef, commandRef,
                   isScenarioActive, walk, norm>>

\* The transport delivers the close notification of object s once more
DuplicateClose(s) ==
    /\ ws[s].closeEvents >= 1
    /\ ws[s].closeEvents < MaxCloseEvents
    /\ onclose(s, [ws EXCEPT ![s].closeEvents = @ + 1])
    /\ lastOp' = "onclose"
    /\ timerCalls' = << >>
    /\ logs' = oncloseLog(s)
    /\ UNCHANGED <<wsUrl, wsRef, mounted, treadmillRef, commandRef, isScenarioActive,
                   scenarioConfig, walk, norm>>

\* The commands the code sends without a value
CommandTypes == {"REQUEST_CONTROL", "GET_STATE"}

\* sendCommand(type) called in whatever state the link is in (no socket argument)
DirectSend(type) ==
    /\ SendRoom
    /\ ws' = sendCommand(type, Undefined, NoSocket, wsRef, ws)
    /\ lastOp' = "sendCommand"
    /\ timerCalls' = << >>
    /\ logs' = sendCommandLog(type, Undefined, NoSocket, wsRef, ws)
    /\ UNCHANGED <<wsStatus, wsUrl, wsRef, mounted, treadmillRef, commandRef,
                   isScenarioActive, scenarioConfig, walk, norm>>

---------------------------------------------------------------------------
(* Specifications *)

\* getNextValue applied once to drawn arguments
WalkValues == {-2500, -1250, 0, 2000, 2040, 2050, 2060, 4000, 4900, 5000, 8000}
WalkVolatilities == {0, 1000}

InitWalk ==
    /\ wsStatus = "DISCONNECTED"
    /\ wsUrl = DefaultUrl
    /\ wsRef = NoSocket
    /\ ws = << >>
    /\ mounted = FALSE
    /\ treadmillRef = InitialTelemetry
    /\ commandRef = [speed |-> 0, incline |-> 0]
    /\ isScenarioActive = FALSE
    /\ scenarioConfig = InitialConfig
    /\ lastOp = "init"
    /\ logs = << >>
    /\ timerCalls = << >>
    /\ norm = NormIdle
    /\ walk \in [phase : {"drawn"}, current : WalkValues, min : WalkValues,
                 max : WalkValues, volatility : WalkVolatilities,
                 precision : 0..MaxPrecision, r : RandomDraws]

ApplyWalk ==
    /\ walk.phase = "drawn"
    /\ walk' = [phase |-> "done", current |-> walk.current, min |-> walk.min,
                max |-> walk.max, volatility |-> walk.volatility,
                precision |-> walk.precision, r |-> walk.r,
                result |-> getNextValue(walk.current, walk.min, walk.max,
                                        walk.volatility, walk.precision, walk.r)]
    /\ UNCHANGED <<appVars, norm>>

SpecWalk == InitWalk /\ [][ApplyWalk]_vars

\* The normaliser applied once to a drawn payload.  A payload has at most one
\* candidate per shape and dimension, an optional type and value, an optional
\* unrelated key, and at most MaxPayloadFields of these in all.
None == << >>
SpeedValues == {JNum(5200), JStr(<<"3", ".", "4">>), JNull}
InclineValues == {JNum(1000), JNull}
TypedValues == {JNum(6000), JStr(<<"x">>)}
Range(f) == {f[x] : x \in DOMAIN f}
Slot(keys, values) == {None} \cup (keys \X values)

AddSlot(o, slot) == IF slot = None THEN o ELSE With(o, slot[1], slot[2])

Payload(ds, di, fs, fi, ty, va, ex) ==
    LET nested == AddSlot(AddSlot(EmptyFields, ds), di)
        withData == IF ds = None /\ di = None THEN EmptyFields
                    ELSE With(EmptyFields, "data", JObj(nested))
    IN  AddSlot(AddSlot(AddSlot(AddSlot(AddSlot(withData, fs), fi), ty), va), ex)

Populated(slots) == Cardinality({x \in DOMAIN slots : slots[x] # None})

\* The keys a machine may use for speed and incline at the top level of a
\* payload: the candidates of both shapes
TopLevelSpeedKeys == Range(NestedSpeedKeys) \cup Range(FlatSpeedKeys)
TopLevelInclineKeys == Range(NestedInclineKeys) \cup Range(FlatInclineKeys)

Payloads ==
    { Payload(c[1], c[2], c[3], c[4], c[5], c[6], c[7]) :
        c \in { d \in Slot(Range(NestedSpeedKeys), SpeedValues)
                      \X Slot(Range(NestedInclineKeys), InclineValues)
                      \X Slot(TopLevelSpeedKeys, SpeedValues)
                      \X Slot(TopLevelInclineKeys, InclineValues)
                      \X Slot({"type"}, SpeedTypes \cup InclineTypes \cup {JStr(<<"x">>)})
                      \X Slot({"value"}, TypedValues)
                      \X Slot({"foo"}, {JNum(1000)}) :
                  Populated(d) <= MaxPayloadFields } }

InitNorm ==
    /\ wsStatus = "DISCONNECTED"
    /\ wsUrl = DefaultUrl
    /\ wsRef = NoSocket
    /\ ws = << >>
    /\ mounted = FALSE
    /\ treadmillRef = InitialTelemetry
    /\ commandRef = [speed |-> 0, incline |-> 0]
    /\ isScenarioActive = FALSE
    /\ scenarioConfig = InitialConfig
    /\ lastOp = "init"
    /\ logs = << >>
    /\ timerCalls = << >>
    /\ walk = WalkIdle
    /\ norm \in [phase : {"drawn"}, msg : Payloads]

ApplyNorm ==
    /\ norm.phase = "drawn"
    /\ norm' = [phase |-> "done", msg |-> norm.msg, result |-> normalize(norm.msg)]
    /\ UNCHANGED <<appVars, walk>>

SpecNorm == InitNorm /\ [][ApplyNorm]_vars

\* The link manager: the connection effect, the address form, the transport
\* events and the reconnect timer
NextLink ==
    \/ Mount
    \/ Unmount
    \/ \E url \in Urls : SubmitUrl(url)
    \/ \E s \in DOMAIN ws : OnOpen(s)
    \/ \E s \in DOMAIN ws : LateOpen(s)
    \/ \E s \in DOMAIN ws : PeerClosing(s)
    \/ \E s \in DOMAIN ws : OnError(s)
    \/ \E s \in DOMAIN ws : OnClose(s)
    \/ \E s \in DOMAIN ws : ReconnectTimer(s)

\* The link manager on a transport that may repeat a close notification
NextDup ==
    \/ NextLink
    \/ \E s \in DOMAIN ws : DuplicateClose(s)

SpecDup == Init /\ [][NextDup]_vars

\* The link manager with the scheduling the platform guarantees: the close event
\* of a failed connection is delivered, and a pending timeout callback runs
SpecLive ==
    /\ Init
    /\ [][NextLink]_vars
    /\ \A s \in 1..MaxSockets : WF_vars(s \in DOMAIN ws /\ OnClose(s))
    /\ \A s \in 1..MaxSockets : WF_vars(s \in DOMAIN ws /\ ReconnectTimer(s))

\* The link manager with sendCommand called from outside at any moment
NextCalls ==
    \/ NextLink
    \/ \E type \in CommandTypes : DirectSend(type)

SpecCalls == Init /\ [][NextCalls]_vars

\* The configuration form: what the operator types into the fields of the
\* ControlPanel while the App is mounted
FormTexts == { <<"9">>, <<"-", "1">>, <<"0", ".", "5">>, <<"x">> }
FormFields == {"min", "max", "volatility"}

NextForm ==
    \/ Mount
    \/ \E section \in Sections, field \in FormFields, text \in FormTexts :
          ConfigChange(<<section, field, text>>)
    \/ \E section \in Sections, text \in FormTexts : IntervalChange(section, text)

SpecForm == Init /\ [][NextForm]_vars

\* The link manager with inbound frames and the polling loop (the operator
\* starts no scenario)
Next ==
    \/ NextLink
    \/ \E s \in DOMAIN ws, frame \in Frames : OnMessage(s, frame)
    \/ PollTick

Spec == Init /\ [][Next]_vars

\* The link manager with whatever a machine may send, readings below zero
\* included:   {"speed":-3}   {"spd":"-1.5","inc":-2.5}
InboundFrames ==
    Frames \cup
    { JObj(With(EmptyFields, "speed", JNum(-3000))),
      JObj(With(With(EmptyFields, "spd", JStr(<<"-", "1", ".", "5">>)), "inc", JNum(-2500))) }

NextInbound ==
    \/ NextLink
    \/ \E s \in DOMAIN ws, frame \in InboundFrames : OnMessage(s, frame)

SpecInbound == Init /\ [][NextInbound]_vars

\* The whole App: the link manager with the scenario controls and loops, on at
\* most MaxScenarioSockets WebSocket objects
ScenarioSocketsBound == Len(ws') <= MaxScenarioSockets

NextScenario ==
    \/ Mount /\ ScenarioSocketsBound
    \/ Unmount
    \/ \E url \in Urls : SubmitUrl(url) /\ ScenarioSocketsBound
    \/ \E s \in DOMAIN ws : OnOpen(s)
    \/ \E s \in DOMAIN ws : LateOpen(s)
    \/ \E s \in DOMAIN ws : PeerClosing(s)
    \/ \E s \in DOMAIN ws : OnError(s)
    \/ \E s \in DOMAIN ws : OnClose(s)
    \/ \E s \in DOMAIN ws : ReconnectTimer(s) /\ ScenarioSocketsBound
    \/ \E s \in DOMAIN ws, frame \in Frames : OnMessage(s, frame)
    \/ PollTick
    \/ ToggleScenario
    \/ \E r \in RandomDraws : SpeedTick(r)
    \/ \E r \in RandomDraws : InclineTick(r)
    \/ \E edit \in ConfigEdits : ConfigChange(edit)
    \/ \E edit \in IntervalEdits : IntervalChange(edit[1], edit[2])

SpecScenario == Init /\ [][NextScenario]_vars

---------------------------------------------------------------------------
(* Properties *)

\* What was handed to send() of object s in the given sockets
Sent(sockets, s) == IF s \in DOMAIN sockets THEN sockets[s].sent ELSE << >>

\* This step handed a message to some transport
TransportCall == \E s \in DOMAIN ws' : Sent(ws', s) # Sent(ws, s)

\* Twice the distance of x from the centre (min+max)/2 of a range
Dist2(x, range) == Abs(2 * x - (range.min + range.max))

Clamp(x, range) == Max2(range.min, Min2(range.max, x))

LastSent == ws[wsRef].sent[Len(ws[wsRef].sent)]

(* C1: for every min <= current <= max, every volatility >= 0, every noise    *)
(* draw and every precision, the value getNextValue returns lies in           *)
(* [min, max], the final rounding included.                                   *)
C1_ResultWithinBounds ==
    (walk.phase = "done" /\ walk.min <= walk.current /\ walk.current <= walk.max)
        => (walk.min <= walk.result /\ walk.result <= walk.max)

(* C2: also when the close notification of one instance is delivered twice,  *)
(* at most one reconnect scheduled by that instance is pending at any time.   *)
C2_AtMostOnePendingReconnect ==
    \A s \in DOMAIN ws : ws[s].timers <= 1

(* C3: a message is handed to a transport only in a step that leaves the link *)
(* state CONNECTED, and sendCommand called while the link state is not        *)
(* CONNECTED (teardown included) hands over nothing and changes nothing.      *)
C3_SendOnlyWhenConnected ==
    [][ /\ TransportCall => wsStatus' = "CONNECTED"
        /\ (lastOp' = "sendCommand" /\ (wsStatus # "CONNECTED" \/ ~mounted))
              => (~TransportCall /\ UNCHANGED <<wsStatus, wsUrl, wsRef, ws, mounted,
                                                treadmillRef, commandRef>>) ]_vars

C3_DroppedSendHappens ==
    /\ lastOp = "sendCommand"
    /\ wsStatus = "CONNECTING"
    /\ wsRef # NoSocket
    /\ ws[wsRef].readyState = WS_STATE_CONNECTING

(* C4: the timeout callback of a reconnect scheduled by an instance that was  *)
(* torn down afterwards creates no WebSocket and changes neither the link     *)
(* state nor the active instance, whatever happened in between; and while the *)
(* manager is torn down no step at all does.                                  *)
C4_NoResurrection ==
    [][ /\ \A s \in DOMAIN ws :
              (ws[s].tornDown /\ ws'[s].timers < ws[s].timers)
                  => (Len(ws') = Len(ws) /\ wsStatus' = wsStatus /\ wsRef' = wsRef)
        /\ (~mounted /\ ~mounted')
              => (Len(ws') = Len(ws) /\ wsStatus' = wsStatus /\ wsRef' = NoSocket) ]_vars

C4_StaleTimerFired ==
    /\ lastOp = "reconnectTimer"
    /\ ~mounted
    /\ \E s \in DOMAIN ws : ws[s].tornDown /\ ws[s].closeEvents = 1 /\ ws[s].timers = 0

(* C5: an open event of an instance that is not the active one changes        *)
(* neither the link state nor hands any command to a transport, also when it  *)
(* has the address of the active instance; the state becomes CONNECTED only   *)
(* in the open event of the active instance.                                  *)
C5_OnlyActiveOpenConnects ==
    [][ /\ \A s \in DOMAIN ws :
              (~ws[s].openFired /\ ws'[s].openFired /\ s # wsRef)
                  => (wsStatus' = wsStatus /\ ~TransportCall)
        /\ (wsStatus # "CONNECTED" /\ wsStatus' = "CONNECTED")
              => (wsRef # NoSocket /\ ~ws[wsRef].openFired /\ ws'[wsRef].openFired) ]_vars

C5_SupersededOpenIgnored ==
    /\ lastOp = "lateOpen"
    /\ wsStatus = "CONNECTING"
    /\ wsRef # NoSocket
    /\ \E s \in DOMAIN ws :
          s # wsRef /\ ws[s].openFired /\ ws[s].url = ws[wsRef].url

\* The active link has failed or closed and its reconnect is pending or coming
ReconnectComing ==
    /\ wsRef # NoSocket
    /\ ws[wsRef].readyState = WS_STATE_CLOSED
    /\ ws[wsRef].timers > 0 \/ ws[wsRef].closeEvents = 0

C7_EarlierShapeWins ==
    norm.phase = "done" =>
        /\ parseNumber(earlierRawSpeed(norm.msg)) # Undefined
              => norm.result.speed = parseNumber(earlierRawSpeed(norm.msg))
        /\ parseNumber(earlierRawIncline(norm.msg)) # Undefined
              => norm.result.incline = parseNumber(earlierRawIncline(norm.msg))

\* {data:{speed_kmh:5.2}}  {speedKmh:"3.4", inc:1.0}  {type:"SET_SPEED", value:6}  {foo:1}
ExampleNested ==
    With(EmptyFields, "data", JObj(With(EmptyFields, "speed_kmh", JNum(5200))))
ExampleFlat ==
    With(With(EmptyFields, "speedKmh", JStr(<<"3", ".", "4">>)), "inc", JNum(1000))
ExampleTyped ==
    With(With(EmptyFields, "type", JStr(SET_SPEED)), "value", JNum(6000))
ExampleUnknown == With(EmptyFields, "foo", JNum(1000))

(* C8: {data:{speed_kmh:5.2}} gives speed 5.2 and no incline;                 *)
(* {speedKmh:"3.4", inc:1.0} gives speed 3.4 and incline 1.0;                 *)
(* {type:"SET_SPEED", value:6} gives speed 6; {foo:1} gives no update.        *)
C8_NormalizationExamples ==
    norm.phase = "done" =>
        /\ norm.msg = ExampleNested
              => norm.result = [speed |-> Some(5200), incline |-> Undefined]
        /\ norm.msg = ExampleFlat
              => norm.result = [speed |-> Some(3400), incline |-> Some(1000)]
        /\ norm.msg = ExampleTyped
              => norm.result = [speed |-> Some(6000), incline |-> Undefined]
        /\ norm.msg = ExampleUnknown => norm.result = NoUpdate

C8_FlatExampleNormalized ==
    /\ norm.phase = "done"
    /\ norm.msg = ExampleFlat
    /\ norm.result.speed = Some(3400)

\* A tick of dimension dim moved the tracked current strictly towards the
\* centre, keeping it within [min, max]
MovedTowardsCentre(dim) ==
    /\ Dist2(commandRef'[dim], scenarioConfig[dim]) < Dist2(commandRef[dim], scenarioConfig[dim])
    /\ scenarioConfig[dim].min <= commandRef'[dim]
    /\ commandRef'[dim] <= scenarioConfig[dim].max

(* C9 as stated: with the link connected and volatility 0, the first speed    *)
(* tick of a scenario started from a value that differs from the centre moves *)
(* the commanded speed strictly towards the centre and within [min, max].     *)
C9_FirstTickStrictlyCloser ==
    [][ ( /\ lastOp = "toggleScenario" /\ isScenarioActive
          /\ lastOp' = "speedTick"
          /\ LinkOpen
          /\ scenarioConfig.speed.volatility = 0
          /\ Dist2(commandRef.speed, scenarioConfig.speed) # 0 )
        => MovedTowardsCentre("speed") ]_vars

(* C9 amended: with the link connected and volatility 0, a tick from a        *)
(* tracked current whose value clamped into [min, max] is more than 0.25 away *)
(* from the centre sends a value strictly closer to the centre and within     *)
(* [min, max]; from 4.0 in [2, 8] the commanded speed is 4.2.                 *)
C9_TickFromAfarMovesCloser ==
    [][ \A dim \in {"speed", "incline"} :
          ( /\ lastOp' = dim \o "Tick"
            /\ LinkOpen
            /\ scenarioConfig[dim].volatility = 0
            /\ Dist2(Clamp(commandRef[dim], scenarioConfig[dim]), scenarioConfig[dim]) > 500 )
          => /\ MovedTowardsCentre(dim)
             /\ TransportCall
             /\ Sent(ws', wsRef)[Len(Sent(ws', wsRef))]
                   = [type |-> TickCommand[dim], value |-> commandRef'[dim]]
             /\ (dim = "speed" /\ commandRef.speed = 4000
                   /\ scenarioConfig.speed.min = 2000 /\ scenarioConfig.speed.max = 8000)
                  => commandRef'.speed = 4200 ]_vars

C9_FirstTickSent ==
    /\ lastOp = "speedTick"
    /\ LinkOpen
    /\ scenarioConfig.speed.volatility = 0
    /\ treadmillRef.speedKmh = 4000
    /\ commandRef.speed = 4200
    /\ LastSent = [type |-> "SET_SPEED_NOW", value |-> 4200]

(* C10: a speed or incline tick that fires while the link is not connected    *)
(* changes neither tracked current and sends no command.                      *)
C10_DisconnectedTickDoesNothing ==
    [][ (lastOp' \in {"speedTick", "inclineTick"} /\ (wsStatus # "CONNECTED" \/ ~LinkOpen))
        => (commandRef' = commandRef /\ ~TransportCall /\ ws' = ws) ]_vars

C10_TickSkipped ==
    /\ lastOp \in {"speedTick", "inclineTick"}
    /\ wsStatus = "DISCONNECTED"
    /\ isScenarioActive
    /\ commandRef # [speed |-> 0, incline |-> 0]

\* The tracked currents equal the telemetry reading
SeededFromTelemetry(command, telemetry) ==
    command = [speed |-> telemetry.speedKmh, incline |-> telemetry.inclinePct]

(* C11: in the step in which a scenario becomes active (start or restart) the *)
(* tracked current of both dimensions becomes the telemetry speed and incline *)
(* of that moment, and a tick of either loop fires only in an active          *)
(* scenario, hence after that seeding.                                        *)
C11_SeededOnStart ==
    [][ /\ (~isScenarioActive /\ isScenarioActive')
              => SeededFromTelemetry(commandRef', treadmillRef)
        /\ (lastOp' \in {"speedTick", "inclineTick"}) => isScenarioActive ]_vars

\* A restart: an earlier run has commanded a speed, telemetry has moved since
C11_RestartSeeded ==
    /\ lastOp = "toggleScenario"
    /\ isScenarioActive
    /\ treadmillRef.speedKmh = 4900
    /\ commandRef.speed = 4900
    /\ wsRef # NoSocket
    /\ \E i \in DOMAIN ws[wsRef].sent :
          /\ ws[wsRef].sent[i].type = "SET_SPEED_NOW"
          /\ ws[wsRef].sent[i].value # 4900

\* The drawn call is getNextValue(center, min, max, 0, p), center = (min+max)/2
AtCentre == walk.phase = "done" /\ walk.volatility = 0 /\ 2 * walk.current = walk.min + walk.max

\* result is x rounded to p decimal digits: a multiple of 10^-p nearest to x
\* (whichever way a tie goes)
RoundedTo(result, x, p) ==
    LET q == Milli \div (10 ^ p)
    IN  result % q = 0 /\ 2 * Abs(result - x) <= q

C13_UnusableFrameChangesNothing ==
    [][ lastOp' = "onmessage" =>
          \A s \in DOMAIN ws, frame \in Frames :
              OnMessage(s, frame) =>
                  IF extract(frame) = NoUpdate
                  THEN UNCHANGED <<treadmillRef, wsStatus, wsUrl, wsRef, ws, mounted,
                                   commandRef, isScenarioActive, scenarioConfig>>
                  ELSE /\ treadmillRef'.isConnected
                       /\ extract(frame).speed # Undefined
                             => treadmillRef'.speedKmh = extract(frame).speed[1]
                       /\ extract(frame).incline # Undefined
                             => treadmillRef'.inclinePct = extract(frame).incline[1] ]_vars

\* A frame has been handled on the connected link and telemetry was never
\* updated: the frame was discarded
C13_FrameDiscarded ==
    /\ lastOp = "onmessage"
    /\ treadmillRef = InitialTelemetry
    /\ wsStatus = "CONNECTED"
    /\ LinkOpen

(* C14: at every moment at most one WebSocket object is not closed: an old    *)
(* transport has reached CLOSED before the transport that supersedes it       *)
(* exists.                                                                    *)
C14_AtMostOneNotClosed ==
    Cardinality({s \in DOMAIN ws : ws[s].readyState # WS_STATE_CLOSED}) <= 1

\* min <= max, volatility >= 0 and updateInterval >= 1000 ms
ValidSection(c) ==
    /\ c.min <= c.max
    /\ c.volatility >= 0
    /\ c.updateInterval >= 1000 * Milli

(* C15: the scenario configuration the loops read satisfies, for speed and    *)
(* for incline, min <= max, volatility >= 0 and updateInterval >= 1000 ms,    *)
(* whatever is typed into the configuration form.                             *)
C15_ConfigAlwaysValid ==
    ValidSection(scenarioConfig.speed) /\ ValidSection(scenarioConfig.incline)

\* The messages this step handed to send() of object s
NewlySent(s) ==
    SubSeq(Sent(ws', s), Len(Sent(ws, s)) + 1, Len(Sent(ws', s)))

TickTypes == {"SET_SPEED_NOW", "SET_INCLINE_NOW"}

(* C16: the step that stops the scenario sends nothing and leaves the tracked *)
(* currents as they are, and while the scenario is stopped no step sends a    *)
(* SET_SPEED_NOW or SET_INCLINE_NOW command or changes the tracked currents   *)
(* until the scenario is started again.                                       *)
C16_StopCancelsLoops ==
    [][ /\ (isScenarioActive /\ ~isScenarioActive')
              => (commandRef' = commandRef /\ ws' = ws)
        /\ ~isScenarioActive
              => /\ \A s \in DOMAIN ws' : \A i \in DOMAIN NewlySent(s) :
                        NewlySent(s)[i].type \notin TickTypes
                 /\ ~isScenarioActive' => commandRef' = commandRef ]_vars

\* Stopped after a speed command: the tracked speed is the last commanded one
C16_StoppedAfterCommand ==
    /\ lastOp = "toggleScenario"
    /\ ~isScenarioActive
    /\ LinkOpen
    /\ LastSent.type = "SET_SPEED_NOW"
    /\ commandRef.speed = LastSent.value
    /\ commandRef.speed # treadmillRef.speedKmh

(* C17: a poll tick hands exactly one GET_STATE to the active socket when     *)
(* that socket is open (the link state is then CONNECTED), whether or not a   *)
(* scenario is active, and hands over nothing when the active socket is not   *)
(* open or there is none; it changes nothing else.                            *)
C17_PollExactlyWhenConnected ==
    [][ lastOp' = "pollTick" =>
          /\ IF LinkOpen
             THEN /\ wsStatus = "CONNECTED"
                  /\ ws' = [ws EXCEPT ![wsRef].sent = Append(@, [type |-> "GET_STATE"])]
             ELSE ws' = ws
          /\ UNCHANGED <<wsStatus, wsRef, treadmillRef, commandRef, isScenarioActive>> ]_vars

\* A poll was sent after the bootstrap while no scenario is active
C17_PolledWithoutScenario ==
    /\ lastOp = "pollTick"
    /\ ~isScenarioActive
    /\ LinkOpen
    /\ Len(ws[wsRef].sent) = 3
    /\ LastSent = [type |-> "GET_STATE"]

Bootstrap == << [type |-> "REQUEST_CONTROL"], [type |-> "GET_STATE"] >>

\* Whatever was handed to send() of a socket starts with the two bootstrap
\* commands, and REQUEST_CONTROL is sent nowhere else
BootstrapFirst(sockets) ==
    \A s \in DOMAIN sockets :
        sockets[s].sent # << >> =>
            /\ Len(sockets[s].sent) >= 2
            /\ SubSeq(sockets[s].sent, 1, 2) = Bootstrap
            /\ \A i \in 3..Len(sockets[s].sent) : sockets[s].sent[i].type # "REQUEST_CONTROL"

(* C18: every step that enters CONNECTED (first connect or reconnect) hands   *)
(* exactly REQUEST_CONTROL then GET_STATE to the instance that opened, which  *)
(* had been handed nothing before; on every instance the commands begin with  *)
(* these two and REQUEST_CONTROL is not repeated.                             *)
C18_BootstrapOnEveryEntry ==
    [][ /\ (wsStatus # "CONNECTED" /\ wsStatus' = "CONNECTED")
              => /\ wsRef' # NoSocket
                 /\ Sent(ws, wsRef') = << >>
                 /\ Sent(ws', wsRef') = Bootstrap
        /\ BootstrapFirst(ws') ]_vars

\* A reconnect has entered CONNECTED on the second instance, the first one
\* having been polled
C18_BootstrapOnReconnect ==
    /\ lastOp = "onopen"
    /\ wsStatus = "CONNECTED"
    /\ wsRef = 2
    /\ ws[2].sent = Bootstrap
    /\ ws[1].timers = 0 /\ ws[1].closeEvents = 1 /\ ~ws[1].tornDown
    /\ Len(ws[1].sent) = 3

(* C19: the error event of the active instance sets the link state to ERROR   *)
(* and schedules nothing (no timer is added, no WebSocket created); the close *)
(* event that follows it on the same instance schedules one reconnect, and    *)
(* no instance ever has more than one pending.                                *)
C19_OnlyCloseSchedules ==
    [][ \A s \in DOMAIN ws :
          /\ OnError(s) =>
                /\ s = wsRef => wsStatus' = "ERROR"
                /\ Len(ws') = Len(ws)
                /\ \A t \in DOMAIN ws : ws'[t].timers = ws[t].timers
          /\ (OnClose(s) /\ s = wsRef /\ ws[s].readyState = WS_STATE_CLOSED)
                => (ws[s].timers = 0 /\ ws'[s].timers = 1)
          /\ ws'[s].timers <= 1 ]_vars

\* The connection was refused (error, then close, never opened): one reconnect
\* is pending
C19_ClosedAfterError ==
    /\ lastOp = "onclose"
    /\ wsStatus = "DISCONNECTED"
    /\ wsRef = 1
    /\ ~ws[1].openFired
    /\ ws[1].closeEvents = 1
    /\ ws[1].timers = 1

(* C20: submitting the address of the link while it is CONNECTED changes      *)
(* nothing: the active socket is not closed, no WebSocket is created, the     *)
(* link state stays CONNECTED and nothing is sent; and no step replaces a     *)
(* connected link by a new WebSocket unless the address changes.              *)
C20_SameAddressIsNoOp ==
    [][ /\ (lastOp' = "submitUrl" /\ wsUrl' = wsUrl /\ wsStatus = "CONNECTED")
              => UNCHANGED <<wsStatus, wsUrl, wsRef, ws, mounted, treadmillRef,
                             commandRef, isScenarioActive, scenarioConfig>>
        /\ (wsStatus = "CONNECTED" /\ LinkOpen /\ Len(ws') > Len(ws))
              => wsUrl' # wsUrl ]_vars

\* The present address was submitted on the connected link
C20_ResubmittedWhileConnected ==
    /\ lastOp = "submitUrl"
    /\ wsStatus = "CONNECTED"
    /\ LinkOpen
    /\ wsUrl = DefaultUrl
    /\ Len(ws) = 1
    /\ ws[1].sent = Bootstrap

\* The value the drawn call rounds, in ten-thousandths, and the rounding step
\* 10^-precision in the same unit
WalkUnrounded ==
    clampedNext(walk.current, walk.min, walk.max, walk.volatility, walk.r)
WalkStep == (Milli \div (10 ^ walk.precision)) * Fine

(* C21: getNextValue returns the clamped value rounded to precision decimal   *)
(* digits, a nearest multiple of 10^-precision, and a value exactly halfway   *)
(* between two multiples goes to the one of larger magnitude, for positive    *)
(* and for negative values.                                                   *)
C21_RoundsHalfAwayFromZero ==
    walk.phase = "done" =>
        /\ (walk.result * Fine) % WalkStep = 0
        /\ 2 * Abs(walk.result * Fine - WalkUnrounded) <= WalkStep
        /\ 2 * (WalkUnrounded % WalkStep) = WalkStep
              => Abs(walk.result * Fine) > Abs(WalkUnrounded)

(* C22: every step that changes the link state (into CONNECTING, CONNECTED,   *)
(* DISCONNECTED or ERROR) puts an entry into the log, every message handed to *)
(* a transport has its entry, and every sendCommand that hands over nothing   *)
(* because the link is not connected puts an entry into the log.              *)
C22_EveryEventLogged ==
    [][ /\ wsStatus' # wsStatus => logs' # << >>
        /\ \A s \in DOMAIN ws' : \A i \in DOMAIN NewlySent(s) :
              \E j \in DOMAIN logs' : logs'[j] = TxEntry(NewlySent(s)[i])
        /\ (lastOp' = "sendCommand" /\ ~TransportCall) => logs' # << >> ]_vars

\* This step is a timed retry: the timeout callback opened a new transport
TimedRetry == lastOp' = "reconnectTimer" /\ Len(ws') > Len(ws)

(* C23 as stated: CONNECTING is entered only from DISCONNECTED or ERROR,      *)
(* CONNECTED only from CONNECTING, a timed retry happens in state             *)
(* DISCONNECTED, and a change of the address while CONNECTED or CONNECTING    *)
(* does not lead to CONNECTING in the same step.                              *)
C23_StatedMachine ==
    [][ /\ (wsStatus # "CONNECTING" /\ wsStatus' = "CONNECTING")
              => wsStatus \in {"DISCONNECTED", "ERROR"}
        /\ (wsStatus # "CONNECTED" /\ wsStatus' = "CONNECTED") => wsStatus = "CONNECTING"
        /\ TimedRetry => wsStatus = "DISCONNECTED"
        /\ (lastOp' = "submitUrl" /\ wsUrl' # wsUrl /\ wsStatus \in {"CONNECTED", "CONNECTING"})
              => wsStatus' # "CONNECTING" ]_vars

(* C23 amended: CONNECTED is entered only from CONNECTING; a timed retry      *)
(* happens only in state DISCONNECTED and enters CONNECTING; apart from the   *)
(* timed retry CONNECTING is entered only by the connection effect (mount or  *)
(* a change of the address), from whatever state the link is in: a change to  *)
(* a well-formed address while CONNECTED or CONNECTING leads to CONNECTING in *)
(* the same step, one to a malformed address to ERROR.                        *)
C23_ActualMachine ==
    [][ /\ (wsStatus # "CONNECTED" /\ wsStatus' = "CONNECTED") => wsStatus = "CONNECTING"
        /\ TimedRetry => (wsStatus = "DISCONNECTED" /\ wsStatus' = "CONNECTING")
        /\ (wsStatus # "CONNECTING" /\ wsStatus' = "CONNECTING")
              => \/ TimedRetry
                 \/ lastOp' = "mount"
                 \/ lastOp' = "submitUrl" /\ wsUrl' # wsUrl
        /\ (lastOp' = "submitUrl" /\ wsUrl' # wsUrl)
              => wsStatus' = IF ValidUrl(wsUrl') THEN "CONNECTING" ELSE "ERROR" ]_vars

\* The address was changed on the connected link: CONNECTING, the old socket
\* closing, nothing in between
C23_SwitchedWhileConnected ==
    /\ lastOp = "submitUrl"
    /\ wsStatus = "CONNECTING"
    /\ wsRef = 2
    /\ ws[1].sent = Bootstrap
    /\ ws[1].readyState = WS_STATE_CLOSING
    /\ ws[1].closeEvents = 0

\* This step is a connect request with a malformed address: the connection
\* effect runs (on mount, or after a change of the address) for such an address
MalformedConnect ==
    /\ ~ValidUrl(wsUrl')
    /\ lastOp' = "mount" \/ (lastOp' = "submitUrl" /\ wsUrl' # wsUrl)

(* C24: a connect request with a malformed address ends in ERROR, creates no  *)
(* WebSocket and makes none the active link, does not leave the state         *)
(* CONNECTING, and does not close an open active socket.                      *)
C24_MalformedFailsHarmlessly ==
    [][ MalformedConnect =>
          /\ wsStatus' = "ERROR"
          /\ Len(ws') = Len(ws)
          /\ wsRef' \in {NoSocket, wsRef}
          /\ LinkOpen => ws'[wsRef].readyState = WS_STATE_OPEN ]_vars

\* The other dimension
Other(dim) == IF dim = "speed" THEN "incline" ELSE "speed"

\* The calls of timerCalls on the timer of the loop of dim
CallsOn(calls, dim) == SelectSeq(calls, LAMBDA c : c.loop = dim)

(* C25: a step that changes the configuration of one dimension while the      *)
(* scenario runs clears that dimension's timer and sets it again with the     *)
(* interval now configured, makes no call on the other dimension's timer, and *)
(* leaves both tracked currents and the running scenario as they are.         *)
C25_OnlyOwnTimerRestarts ==
    [][ \A dim \in Sections :
          ( /\ lastOp' \in {"configChange", "intervalChange"}
            /\ isScenarioActive
            /\ scenarioConfig'[dim] # scenarioConfig[dim] )
          => /\ CallsOn(timerCalls', dim)
                   = << ClearInterval(dim),
                        SetInterval(dim, scenarioConfig'[dim].updateInterval) >>
             /\ CallsOn(timerCalls', Other(dim)) = << >>
             /\ scenarioConfig'[Other(dim)] = scenarioConfig[Other(dim)]
             /\ commandRef' = commandRef
             /\ isScenarioActive' ]_vars

\* The speed interval was changed to 9 s in a running scenario whose speed
\* loop has already commanded a value
C25_IntervalChangedMidRun ==
    /\ lastOp = "intervalChange"
    /\ isScenarioActive
    /\ timerCalls = << ClearInterval("speed"), SetInterval("speed", 9000 * Milli) >>
    /\ LinkOpen
    /\ LastSent.type = "SET_SPEED_NOW"
    /\ commandRef.speed = LastSent.value
    /\ commandRef.speed # treadmillRef.speedKmh

\* This step runs effect 3 in an active scenario: the scenario starts (or the
\* effects are set up again while it is active)
ScenarioStart == lastOp' \in {"toggleScenario", "mount"} /\ isScenarioActive'

\* This step is a tick of the loop of dim on an open link: the next value is
\* computed from the tracked current of dim, stored, and sent as the one
\* message of the step
OwnConnectedTick(dim) ==
    /\ lastOp' = dim \o "Tick"
    /\ LinkOpen
    /\ \E r \in RandomDraws :
          commandRef'[dim] = getNextValue(commandRef[dim], scenarioConfig[dim].min,
                                          scenarioConfig[dim].max,
                                          scenarioConfig[dim].volatility, 1, r)
    /\ commandRef'[Other(dim)] = commandRef[Other(dim)]
    /\ NewlySent(wsRef) = << [type |-> TickCommand[dim], value |-> commandRef'[dim]] >>
    /\ \A s \in DOMAIN ws : s # wsRef => NewlySent(s) = << >>

(* C26: apart from the seeding at a scenario start, the tracked current of a  *)
(* dimension changes only in that dimension's own tick on an open link; such  *)
(* a tick computes the next value from the tracked current (not from the      *)
(* telemetry), stores it and sends exactly the stored value as SET_SPEED_NOW  *)
(* or SET_INCLINE_NOW; frames, the other dimension's ticks, poll ticks and    *)
(* link events leave it unchanged.                                            *)
C26_OnlyOwnTickMovesCurrent ==
    [][ \A dim \in Sections :
          /\ (commandRef'[dim] # commandRef[dim] /\ ~ScenarioStart) => OwnConnectedTick(dim)
          /\ (lastOp' = dim \o "Tick" /\ LinkOpen) => OwnConnectedTick(dim)
          /\ ScenarioStart => SeededFromTelemetry(commandRef', treadmillRef) ]_vars

\* A speed tick after the telemetry has moved away from the tracked speed: the
\* value stored and sent is one the walk reaches from the tracked speed and
\* not one it reaches from the telemetry reading
C26_TickFromTrackedCurrent ==
    /\ lastOp = "speedTick"
    /\ isScenarioActive
    /\ LinkOpen
    /\ LastSent = [type |-> "SET_SPEED_NOW", value |-> commandRef.speed]
    /\ treadmillRef.speedKmh = 4000
    /\ \A r \in RandomDraws :
          commandRef.speed # getNextValue(treadmillRef.speedKmh, scenarioConfig.speed.min,
                                          scenarioConfig.speed.max,
                                          scenarioConfig.speed.volatility, 1, r)

(* C27: the telemetry changes only in the handler of a frame received on the  *)
(* active instance: a frame delivered on a superseded or torn-down instance   *)
(* leaves it as it is.                                                        *)
C27_OnlyActiveInstanceMutates ==
    [][ treadmillRef' # treadmillRef
          => (wsRef # NoSocket /\ \E frame \in Frames : OnMessage(wsRef, frame)) ]_vars

\* The payload has no nested container and no type, and of the given keys only
\* key at its top level
OnlyFlat(msg, key, keys) ==
    /\ "data" \notin DOMAIN msg
    /\ "type" \notin DOMAIN msg
    /\ key \in DOMAIN msg
    /\ \A other \in keys \ {key} : other \notin DOMAIN msg

\* The value of key in msg is the speed, or the incline, the normaliser returns
FlatSpeedTaken(msg, key, result) ==
    OnlyFlat(msg, key, TopLevelSpeedKeys) => result.speed = parseNumber(msg[key])
FlatInclineTaken(msg, key, result) ==
    OnlyFlat(msg, key, TopLevelInclineKeys) => result.incline = parseNumber(msg[key])

(* C28 as stated: at the top level of a payload speed_kmh, speed, kph,        *)
(* speedKmh and spd are accepted for speed and incline_pct, incline, grade,   *)
(* inclinePct and inc for incline.                                            *)
C28_FlatAcceptsNestedKeys ==
    norm.phase = "done" =>
        /\ \A key \in {"speed_kmh", "speed", "kph", "speedKmh", "spd"} :
              FlatSpeedTaken(norm.msg, key, norm.result)
        /\ \A key \in {"incline_pct", "incline", "grade", "inclinePct", "inc"} :
              FlatInclineTaken(norm.msg, key, norm.result)

(* C28 amended: at the top level of a payload speed, speedKmh, kph and spd    *)
(* are accepted for speed and incline, inclinePct, grade and inc for incline; *)
(* speed_kmh and incline_pct are accepted inside the nested container only:   *)
(* at the top level they are ignored.                                         *)
C28_FlatKeysAccepted ==
    norm.phase = "done" =>
        /\ \A key \in {"speed", "speedKmh", "kph", "spd"} :
              FlatSpeedTaken(norm.msg, key, norm.result)
        /\ \A key \in {"incline", "inclinePct", "grade", "inc"} :
              FlatInclineTaken(norm.msg, key, norm.result)
        /\ OnlyFlat(norm.msg, "speed_kmh", TopLevelSpeedKeys)
              => norm.result.speed = Undefined
        /\ OnlyFlat(norm.msg, "incline_pct", TopLevelInclineKeys)
              => norm.result.incline = Undefined

\* {speed_kmh: 5.2} at the top level gives no update
C28_FlatSnakeCaseIgnored ==
    /\ norm.phase = "done"
    /\ norm.msg = With(EmptyFields, "speed_kmh", JNum(5200))
    /\ norm.result = NoUpdate

(* C29: in every reachable state the telemetry speed is >= 0, whatever frames *)
(* have been received.                                                        *)
C29_SpeedNeverNegative ==
    treadmillRef.speedKmh >= 0

(* C30: the linked flag of the telemetry is false exactly as long as no frame *)
(* has yielded an update, it becomes true only in the handler of a frame that *)
(* yields one, and once true no step (close, error, teardown, reconnect,      *)
(* failed connect) sets it back to false.                                     *)
C30_LinkedIsMonotone ==
    [][ /\ treadmillRef.isConnected => treadmillRef'.isConnected
        /\ ~treadmillRef'.isConnected => treadmillRef' = InitialTelemetry
        /\ (~treadmillRef.isConnected /\ treadmillRef'.isConnected)
              => \E s \in DOMAIN ws, frame \in Frames :
                    OnMessage(s, frame) /\ extract(frame) # NoUpdate ]_vars

\* Linked although the link is down: the address was changed to a malformed
\* one after telemetry had been received, and the link state is ERROR
C30_LinkedWhileNotConnected ==
    /\ treadmillRef.isConnected
    /\ lastOp = "submitUrl"
    /\ wsStatus = "ERROR"
    /\ wsRef = NoSocket
    /\ \A s \in DOMAIN ws : ws[s].readyState # WS_STATE_OPEN

=============================================================================
